---- MODULE Spec2Model ----
(***************************************************************************)
(* BeatMatch "Music Label Matcher" backend (src/main.py).                  *)
(*                                                                         *)
(* Two specifications over one set of variables:                           *)
(*   SpecFn  applies the three pure tempo tables (classify_style,          *)
(*           get_genre_keywords, get_fallback_labels) to every tempo of a  *)
(*           fine grid;                                                    *)
(*   Spec    runs one POST /analyze request: extension check, temporary    *)
(*           file, upload copy, BPM detection, classification, the         *)
(*           catalog search loop of search_labels_on_spotify, and the      *)
(*           handler's except/finally.                                     *)
(*                                                                         *)
(* A tempo is a fixed-point number: the integer t stands for t/TempoUnit   *)
(* beats per minute.                                                       *)
(***************************************************************************)
EXTENDS Integers, Sequences, FiniteSets, TLC

\* ------------------------------------------------------------------ bounds
\* Resolution of the tempo grid: steps per BPM.
TempoUnit == 4
\* The tempo grid runs from -MinBpm to MaxBpm (in BPM).
MinBpm == 3
MaxBpm == 175
\* Largest number of tracks a top-tracks response carries.
MaxTracks == 3

\* ------------------------------------------------------- program constants
\* sp.search(..., limit=5): the catalog returns at most 5 artists.
ArtistLimit == 5
\* keywords[:2]
KeywordLimit == 2
\* top_tracks["tracks"][:2]
TrackLimit == 2
\* if len(labels) >= 8 / labels[:8]
LabelCap == 8
\* return float(bpm) if bpm > 0 else 120.0
DefaultBpm == 120

Bpm(n) == n * TempoUnit

Tempos == Bpm(0 - MinBpm) .. Bpm(MaxBpm)

Min(a, b) == IF a < b THEN a ELSE b

\* s[:n] of a Python list
Take(s, n) == SubSeq(s, 1, Min(n, Len(s)))

\* ------------------------------------------------------------ pure tables

classify_style_shifted(tempo) ==
    IF tempo < Bpm(90) THEN "Ambient / Downtempo"
    ELSE IF tempo < Bpm(115) THEN "Pop / R&B"
    ELSE IF tempo < Bpm(128) THEN "House"
    ELSE IF tempo <= Bpm(140) THEN "Techno"
    ELSE IF tempo < Bpm(160) THEN "Drum & Bass / Jungle"
    ELSE "Fast Electronic / Hardcore"

classify_style(tempo) ==
    IF tempo < Bpm(90) THEN "Ambient / Downtempo"
    ELSE IF tempo < Bpm(115) THEN "Pop / R&B"
    ELSE IF tempo < Bpm(128) THEN "House"
    ELSE IF tempo < Bpm(140) THEN "Techno"
    ELSE IF tempo < Bpm(160) THEN "Drum & Bass / Jungle"
    ELSE "Fast Electronic / Hardcore"

get_genre_keywords_drifted(tempo) ==
    IF tempo < Bpm(90) THEN <<"ambient", "downtempo", "chillout", "lofi">>
    ELSE IF tempo < Bpm(115) THEN <<"pop", "rnb", "indie", "alternative">>
    ELSE IF tempo < Bpm(130) THEN <<"house", "deep house", "tech house">>
    ELSE IF tempo < Bpm(140) THEN <<"techno", "minimal techno", "progressive">>
    ELSE IF tempo < Bpm(160) THEN <<"drum and bass", "dnb", "jungle">>
    ELSE <<"hardcore", "hardstyle", "gabber">>

get_genre_keywords(tempo) ==
    IF tempo < Bpm(90) THEN <<"ambient", "downtempo", "chillout", "lofi">>
    ELSE IF tempo < Bpm(115) THEN <<"pop", "rnb", "indie", "alternative">>
    ELSE IF tempo < Bpm(128) THEN <<"house", "deep house", "tech house">>
    ELSE IF tempo < Bpm(140) THEN <<"techno", "minimal techno", "progressive">>
    ELSE IF tempo < Bpm(160) THEN <<"drum and bass", "dnb", "jungle">>
    ELSE <<"hardcore", "hardstyle", "gabber">>

LabelUrl == "https://open.spotify.com/label/0aT7J5CbM8kHPVnFLGZsLz"

Entry(n, u) == [name |-> n, url |-> u]

get_fallback_labels(tempo) ==
    IF tempo < Bpm(90) THEN
        << Entry("Ninja Tune", "https://open.spotify.com/label/0aOC4pKKYl9wDLqaScqBKq"),
           Entry("Ghostly International", "https://open.spotify.com/label/0f1J4JvjYbVB1p1ZvLQmZg"),
           Entry("Warp Records", LabelUrl) >>
    ELSE IF tempo < Bpm(115) THEN
        << Entry("XL Recordings", LabelUrl),
           Entry("Interscope Records", LabelUrl),
           Entry("Republic Records", LabelUrl) >>
    ELSE IF tempo < Bpm(128) THEN
        << Entry("Defected Records", LabelUrl),
           Entry("Toolroom Records", LabelUrl),
           Entry("Spinnin' Deep", LabelUrl) >>
    ELSE IF tempo < Bpm(140) THEN
        << Entry("Drumcode", LabelUrl),
           Entry("Afterlife", LabelUrl),
           Entry("KNTXT", LabelUrl) >>
    ELSE
        << Entry("Hospital Records", LabelUrl),
           Entry("RAM Records", LabelUrl),
           Entry("Critical Music", LabelUrl) >>

\* ------------------------------------------------------------------ state

VARIABLES
    argTempo,      \* SpecFn: the tempo the tables are applied to
    retStyle,      \* SpecFn: classify_style(argTempo), "" before the call
    retKeywords,   \* SpecFn: get_genre_keywords(argTempo), <<>> before the call
    retFallback,   \* SpecFn: get_fallback_labels(argTempo), <<>> before the call
    pc,            \* position of the request in analyze_track
    sp,            \* module global sp: TRUE when the catalog client exists
    filename,      \* file.filename, a sequence of characters
    disk,          \* temporary files that exist on disk
    created,       \* a temporary file was created during this call
    temp_path,     \* local temp_path, Unbound until line 226 assigns it
    tempo,         \* local tempo of analyze_track
    style,         \* local style of analyze_track
    keywords,      \* local keywords of search_labels_on_spotify
    labels,        \* local labels of search_labels_on_spotify
    kwIdx,         \* index of the keyword the outer loop is at
    nArtists,      \* length of results["artists"]["items"] of the last search
    artIdx,        \* index of the artist the middle loop is at
    artistUrl,     \* artist.get("external_urls", {}).get("spotify", "")
    nTracks,       \* length of top_tracks["tracks"] of the last fetch
    trkIdx,        \* index of the track the inner loop is at
    calls,         \* catalog calls issued so far (search and top-tracks)
    failure,       \* text of the failure raised inside the handler's try
    catalogError,  \* text of the failure caught inside the search, "" if none
    outcome,       \* "pending", "returned" or "raised"
    returned,      \* the handler's return value
    raised         \* the exception that leaves the handler

fnVars == <<argTempo, retStyle, retKeywords, retFallback>>

searchVars == <<keywords, labels, kwIdx, nArtists, artIdx, artistUrl, nTracks,
                trkIdx, calls, catalogError>>

reqVars == <<pc, sp, filename, disk, created, temp_path, tempo, style,
             failure, outcome, returned, raised>>

vars == <<fnVars, searchVars, reqVars>>

\* ------------------------------------------------------------ input sets

\* Uploaded file names, as sequences of characters.
Filenames ==
    { <<"a", ".", "w", "a", "v">>,
      <<"a", ".", "W", "A", "V">>,
      <<"a", ".", "m", "p", "3">>,
      <<"w", "a", "v">>,
      <<"a", ".", "w", "a", "v", "e">>,
      <<"a", ".", "w", "a", "v", ".", "t", "x", "t">>,
      << >> }

\* What aubio's get_bpm() may report (0 and below: nothing detected).
RawBpms ==
    { Bpm(0) - 1, Bpm(0), Bpm(70), Bpm(90), Bpm(120), Bpm(128), Bpm(140),
      Bpm(160) - 1, Bpm(160) }

CreateErrors == {"No usable temporary directory found"}
UploadErrors == {"upload read failed", "No space left on device"}
DecodeErrors == {"Decoding failed", "data chunk not found"}
CatalogErrors == {"http status: 429", "Connection aborted"}
\* str(KeyError('id')) of artist["id"] on an artist without an id
MissingIdError == "'id'"
\* album.get on a track whose "album" is null
NullAlbumError == "'NoneType' object has no attribute 'get'"

TmpName == "/tmp/tmpXXXXXXXX.wav"
Unbound == "<unbound>"

NoReturn == [tempo |-> 0, style |-> "", recommended_labels |-> << >>]
NoException == [type |-> "none", status_code |-> 0, detail |-> ""]

HTTPException(code, text) ==
    [type |-> "HTTPException", status_code |-> code, detail |-> text]

\* An exception that is not an HTTPException carries no status.
PlainException(kind, text) ==
    [type |-> kind, status_code |-> 0, detail |-> text]

UnboundLocalError ==
    PlainException("UnboundLocalError",
        "cannot access local variable 'temp_path' where it is not associated with a value")

\* ------------------------------------------------------------ str helpers

\* str.lower() on the characters file names are built from
LowerChar(c) ==
    CASE c = "W" -> "w"
      [] c = "A" -> "a"
      [] c = "V" -> "v"
      [] OTHER -> c

Lower(s) == [i \in 1 .. Len(s) |-> LowerChar(s[i])]

EndsWith(s, suffix) ==
    /\ Len(s) >= Len(suffix)
    /\ SubSeq(s, Len(s) - Len(suffix) + 1, Len(s)) = suffix

WavSuffix == <<".", "w", "a", "v">>

IsWav_anywhere(name) ==
    \E i \in 1 .. Len(name) :
        /\ i + Len(WavSuffix) - 1 <= Len(name)
        /\ SubSeq(Lower(name), i, i + Len(WavSuffix) - 1) = WavSuffix

\* line 216: file.filename.lower().endswith(".wav")
IsWav(name) == EndsWith(Lower(name), WavSuffix)

\* ---------------------------------------------------- catalog test data

LabelName(i) == "Label " \o ToString(i)

\* The code only tests a label for emptiness and for equality with the names
\* already collected, so the names not yet collected are represented by one
\* of them: a track's label is missing (""), a collected name, or new.
TrackLabels(collected) ==
    {""} \cup {collected[i].name : i \in 1 .. Len(collected)}
         \cup {LabelName(Len(collected) + 1)}

\* artist.get("external_urls", {}).get("spotify", "") of the a-th artist of
\* the k-th search. Catalog test data: the first artist of a result page has
\* no external_urls, the profile URL of the others names the search.
ArtistUrl(k, a) ==
    IF a = 1 THEN "" ELSE "https://open.spotify.com/artist/" \o ToString(k)

\* ---------------------------------------------------------------- SpecFn

FnIdle ==
    /\ pc = "idle" /\ sp = FALSE /\ filename = << >> /\ disk = {}
    /\ created = FALSE /\ temp_path = Unbound /\ tempo = 0 /\ style = ""
    /\ keywords = << >> /\ labels = << >> /\ kwIdx = 0 /\ nArtists = 0
    /\ artIdx = 0 /\ artistUrl = "" /\ nTracks = 0 /\ trkIdx = 0
    /\ calls = 0 /\ failure = "" /\ catalogError = ""
    /\ outcome = "pending" /\ returned = NoReturn /\ raised = NoException

InitFn ==
    /\ argTempo \in Tempos
    /\ retStyle = "" /\ retKeywords = << >> /\ retFallback = << >>
    /\ FnIdle

CallClassifyStyle ==
    /\ retStyle = ""
    /\ retStyle' = classify_style(argTempo)
    /\ UNCHANGED <<argTempo, retKeywords, retFallback, searchVars, reqVars>>

CallGetGenreKeywords ==
    /\ retKeywords = << >>
    /\ retKeywords' = get_genre_keywords(argTempo)
    /\ UNCHANGED <<argTempo, retStyle, retFallback, searchVars, reqVars>>

CallGetFallbackLabels ==
    /\ retFallback = << >>
    /\ retFallback' = get_fallback_labels(argTempo)
    /\ UNCHANGED <<argTempo, retStyle, retKeywords, searchVars, reqVars>>

NextFn == CallClassifyStyle \/ CallGetGenreKeywords \/ CallGetFallbackLabels

SpecFn == InitFn /\ [][NextFn]_vars

\* ------------------------------------------------- analyze_track: exits

\* lines 246-249: the finally block. path is the value of temp_path when the
\* block runs; reading it while unbound raises, which replaces the exception
\* in flight and skips the unlink.
Finally(path, pending) ==
    IF path = Unbound
    THEN /\ raised' = UnboundLocalError
         /\ outcome' = "raised"
         /\ returned' = NoReturn
         /\ disk' = disk
    ELSE /\ disk' = disk \ {path}
         /\ raised' = pending.exc
         /\ outcome' = pending.kind
         /\ returned' = pending.value

\* lines 243-244, then finally
Except(path, msg) ==
    /\ failure' = msg
    /\ Finally(path, [kind |-> "raised", value |-> NoReturn,
                      exc |-> HTTPException(500, "Analysis failed: " \o msg)])
    /\ pc' = "done"

\* lines 237-241, then finally
Return(t, s, recommended) ==
    /\ Finally(temp_path,
               [kind |-> "returned", exc |-> NoException,
                value |-> [tempo |-> t, style |-> s,
                           recommended_labels |-> recommended]])
    /\ pc' = "done"
    /\ UNCHANGED failure

\* ------------------------------------------------- analyze_track: steps

\* lines 216-220: extension check, then the temporary file is created
Validate ==
    /\ pc = "start"
    /\ \/ /\ ~IsWav(filename)
          /\ raised' = HTTPException(400, "Only WAV files are supported")
          /\ outcome' = "raised"
          /\ pc' = "done"
          /\ UNCHANGED <<disk, created>>
       \/ /\ IsWav(filename)
          /\ disk' = disk \cup {TmpName}
          /\ created' = TRUE
          /\ pc' = "read"
          /\ UNCHANGED <<raised, outcome>>
       \* NamedTemporaryFile itself fails: outside the try, nothing created
       \/ /\ IsWav(filename)
          /\ \E msg \in CreateErrors : raised' = PlainException("OSError", msg)
          /\ outcome' = "raised"
          /\ pc' = "done"
          /\ UNCHANGED <<disk, created>>
    /\ UNCHANGED <<fnVars, searchVars, sp, filename, temp_path, tempo, style,
                   failure, returned>>

\* lines 223-226: copy the upload into the temporary file, bind temp_path
ReadUpload ==
    /\ pc = "read"
    /\ \/ /\ temp_path' = TmpName
          /\ pc' = "detect"
          /\ UNCHANGED <<disk, failure, outcome, returned, raised>>
       \/ /\ \E msg \in UploadErrors : Except(temp_path, msg)
          /\ UNCHANGED temp_path
    /\ UNCHANGED <<fnVars, searchVars, sp, filename, created, tempo, style>>

\* line 203
detect_bpm_result(bpm) == IF bpm > 0 THEN bpm ELSE Bpm(DefaultBpm)

\* line 229 and lines 171-203
DetectBpm ==
    /\ pc = "detect"
    /\ \/ /\ \E bpm \in RawBpms : tempo' = detect_bpm_result(bpm)
          /\ pc' = "classify"
          /\ UNCHANGED <<disk, failure, outcome, returned, raised>>
       \/ /\ \E msg \in DecodeErrors : Except(temp_path, msg)
          /\ UNCHANGED tempo
    /\ UNCHANGED <<fnVars, searchVars, sp, filename, created, temp_path, style>>

ConfigPrompt ==
    << Entry("Spotify API not configured", "https://developer.spotify.com/dashboard"),
       Entry("Set SPOTIFY_CLIENT_ID", "https://developer.spotify.com/dashboard"),
       Entry("Set SPOTIFY_CLIENT_SECRET", "https://developer.spotify.com/dashboard") >>

ClientAbsent_ignored(client) == FALSE

\* line 81: if not sp
ClientAbsent(client) == ~client

\* lines 232-235 and 81-89: classify, enter search_labels_on_spotify
Classify ==
    /\ pc = "classify"
    /\ style' = classify_style(tempo)
    /\ IF ClientAbsent(sp)
       THEN /\ Return(tempo, style', ConfigPrompt)
            /\ UNCHANGED searchVars
       ELSE /\ labels' = << >>
            /\ keywords' = get_genre_keywords(tempo)
            /\ kwIdx' = 1
            /\ pc' = "keyword"
            /\ UNCHANGED <<nArtists, artIdx, artistUrl, nTracks, trkIdx, calls,
                           catalogError, disk, failure, outcome,
                           returned, raised>>
    /\ UNCHANGED <<fnVars, sp, filename, created, temp_path, tempo>>

\* ------------------------------------------ search_labels_on_spotify

\* line 93: keywords[:2]
SearchKeywords == Take(keywords, KeywordLimit)

\* line 103: top_tracks["tracks"][:2]
TracksToCheck == Min(TrackLimit, nTracks)

AddLabel_no_dedup(ls, label, url) ==
    IF label # "" THEN Append(ls, Entry(label, url)) ELSE ls

\* lines 107-111
AddLabel(ls, label, url) ==
    IF label # "" /\ \A i \in 1 .. Len(ls) : ls[i].name # label
    THEN Append(ls, Entry(label, url))
    ELSE ls

CapReached_never(ls) == FALSE

\* line 113
CapReached(ls) == Len(ls) >= LabelCap

SearchErrorResult_keeps_labels(ls, msg) ==
    Append(ls, Entry("Search error: " \o msg, ""))

\* line 118
SearchErrorResult(ls, msg) == << Entry("Search error: " \o msg, "") >>

\* lines 120-124
AfterSearch(ls, t) ==
    Take(IF ls = << >> THEN get_fallback_labels(t) ELSE ls, LabelCap)

\* lines 116-118: the search's except clause; the handler then returns
SearchError(msg) ==
    /\ catalogError' = msg
    /\ Return(tempo, style, SearchErrorResult(labels, msg))

\* line 94: sp.search for the next keyword, and 96: the shape of its result
SearchArtists ==
    /\ pc = "keyword"
    /\ kwIdx <= Len(SearchKeywords)
    /\ calls' = calls + 1
    /\ \/ /\ \E msg \in CatalogErrors : SearchError(msg)
          /\ UNCHANGED <<kwIdx, nArtists, artIdx>>
       \/ /\ kwIdx' = kwIdx + 1
          /\ UNCHANGED <<pc, nArtists, artIdx, catalogError, disk, failure,
                         outcome, returned, raised>>
       \/ /\ \E n \in 1 .. ArtistLimit : nArtists' = n
          /\ artIdx' = 1
          /\ pc' = "artist"
          /\ UNCHANGED <<kwIdx, catalogError, disk, failure, outcome,
                         returned, raised>>
    /\ UNCHANGED <<fnVars, keywords, labels, artistUrl, nTracks, trkIdx,
                   sp, filename, created, temp_path, tempo, style>>

\* lines 120-124 once the keyword loop is exhausted; the handler returns
FinishSearch ==
    /\ pc = "keyword"
    /\ kwIdx > Len(SearchKeywords)
    /\ Return(tempo, style, AfterSearch(labels, tempo))
    /\ UNCHANGED <<fnVars, searchVars, sp, filename, created, temp_path,
                   tempo, style>>

\* lines 99-102: artist["id"], sp.artist_top_tracks, the shape of its result
FetchTopTracks ==
    /\ pc = "artist"
    /\ artIdx <= nArtists
    /\ \/ /\ SearchError(MissingIdError)
          /\ UNCHANGED <<calls, artIdx, artistUrl, nTracks, trkIdx>>
       \/ /\ calls' = calls + 1
          /\ \E msg \in CatalogErrors : SearchError(msg)
          /\ UNCHANGED <<artIdx, artistUrl, nTracks, trkIdx>>
       \/ /\ calls' = calls + 1
          /\ artIdx' = artIdx + 1
          /\ UNCHANGED <<pc, artistUrl, nTracks, trkIdx, catalogError, disk,
                         failure, outcome, returned, raised>>
       \/ /\ calls' = calls + 1
          /\ \E m \in 1 .. MaxTracks : nTracks' = m
          /\ artistUrl' = ArtistUrl(kwIdx, artIdx)
          /\ trkIdx' = 1
          /\ pc' = "track"
          /\ UNCHANGED <<artIdx, catalogError, disk, failure, outcome,
                         returned, raised>>
    /\ UNCHANGED <<fnVars, keywords, labels, kwIdx, nArtists, sp,
                   filename, created, temp_path, tempo, style>>

\* line 97: the artist loop is exhausted, on to the next keyword
NextKeyword ==
    /\ pc = "artist"
    /\ artIdx > nArtists
    /\ kwIdx' = kwIdx + 1
    /\ pc' = "keyword"
    /\ nArtists' = 0 /\ artIdx' = 0
    /\ UNCHANGED <<fnVars, keywords, labels, artistUrl,
                   nTracks, trkIdx, calls, catalogError, sp,
                   filename, disk, created, temp_path, tempo, style, failure,
                   outcome, returned, raised>>

\* lines 104-114: one track of the inner loop
InspectTrack ==
    /\ pc = "track"
    /\ trkIdx <= TracksToCheck
    /\ \/ /\ SearchError(NullAlbumError)
          /\ UNCHANGED <<labels, trkIdx>>
       \/ \E label \in TrackLabels(labels) :
            /\ labels' = AddLabel(labels, label, artistUrl)
            /\ IF CapReached(labels')
               THEN /\ Return(tempo, style, labels')
                    /\ UNCHANGED <<trkIdx, catalogError>>
               ELSE /\ trkIdx' = trkIdx + 1
                    /\ UNCHANGED <<pc, catalogError, disk, failure, outcome,
                                   returned, raised>>
    /\ UNCHANGED <<fnVars, keywords, kwIdx, nArtists, artIdx, artistUrl,
                   nTracks, calls, sp, filename, created, temp_path, tempo,
                   style>>

\* line 103: the track loop is exhausted, on to the next artist
NextArtist ==
    /\ pc = "track"
    /\ trkIdx > TracksToCheck
    /\ artIdx' = artIdx + 1
    /\ pc' = "artist"
    /\ nTracks' = 0 /\ trkIdx' = 0 /\ artistUrl' = ""
    /\ UNCHANGED <<fnVars, keywords, labels, kwIdx, nArtists,
                   calls, catalogError, sp,
                   filename, disk, created, temp_path, tempo, style, failure,
                   outcome, returned, raised>>

\* ------------------------------------------------------------------ Spec

Init ==
    /\ argTempo = 0 /\ retStyle = "" /\ retKeywords = << >>
    /\ retFallback = << >>
    /\ pc = "start"
    /\ sp \in BOOLEAN
    /\ filename \in Filenames
    /\ disk = {} /\ created = FALSE /\ temp_path = Unbound
    /\ tempo = 0 /\ style = ""
    /\ keywords = << >> /\ labels = << >> /\ kwIdx = 0 /\ nArtists = 0
    /\ artIdx = 0 /\ artistUrl = "" /\ nTracks = 0 /\ trkIdx = 0
    /\ calls = 0 /\ failure = "" /\ catalogError = ""
    /\ outcome = "pending" /\ returned = NoReturn /\ raised = NoException

Next ==
    \/ Validate
    \/ ReadUpload
    \/ DetectBpm
    \/ Classify
    \/ SearchArtists
    \/ FinishSearch
    \/ FetchTopTracks
    \/ NextKeyword
    \/ InspectTrack
    \/ NextArtist

Spec == Init /\ [][Next]_vars

\* ================================================================ claims

Recommended == returned.recommended_labels

CodeStyles ==
    { "Ambient / Downtempo", "Pop / R&B", "House", "Techno",
      "Drum & Bass / Jungle", "Fast Electronic / Hardcore" }

\* C1 (as amended): classify_style(t) is one of the six labels, spelled with
\* spaces around the slash, chosen by (-inf,90), [90,115), [115,128),
\* [128,140), [140,160), [160,inf): every tempo below 90, the negative ones
\* included, is "Ambient / Downtempo" and 90 is "Pop / R&B".
C1_StyleIntervals ==
    retStyle # "" =>
        /\ retStyle \in CodeStyles
        /\ (retStyle = "Ambient / Downtempo") <=> (argTempo < Bpm(90))
        /\ (retStyle = "Pop / R&B") <=> (Bpm(90) <= argTempo /\ argTempo < Bpm(115))
        /\ (retStyle = "House") <=> (Bpm(115) <= argTempo /\ argTempo < Bpm(128))
        /\ (retStyle = "Techno") <=> (Bpm(128) <= argTempo /\ argTempo < Bpm(140))
        /\ (retStyle = "Drum & Bass / Jungle")
               <=> (Bpm(140) <= argTempo /\ argTempo < Bpm(160))
        /\ (retStyle = "Fast Electronic / Hardcore") <=> (Bpm(160) <= argTempo)

C1_Witness == argTempo = Bpm(90) /\ retStyle = "Pop / R&B"

\* C1 as stated: the six labels are "Ambient/Downtempo", "Pop/R&B", "House",
\* "Techno", "Drum & Bass/Jungle", "Fast Electronic/Hardcore", chosen by
\* [0,90), [90,115), [115,128), [128,140), [140,160), [160,inf).
C1_Original ==
    retStyle # "" =>
        /\ retStyle \in { "Ambient/Downtempo", "Pop/R&B", "House", "Techno",
                          "Drum & Bass/Jungle", "Fast Electronic/Hardcore" }
        /\ (0 <= argTempo /\ argTempo < Bpm(90)) => retStyle = "Ambient/Downtempo"
        /\ (Bpm(90) <= argTempo /\ argTempo < Bpm(115)) => retStyle = "Pop/R&B"
        /\ (Bpm(115) <= argTempo /\ argTempo < Bpm(128)) => retStyle = "House"
        /\ (Bpm(128) <= argTempo /\ argTempo < Bpm(140)) => retStyle = "Techno"
        /\ (Bpm(140) <= argTempo /\ argTempo < Bpm(160))
               => retStyle = "Drum & Bass/Jungle"
        /\ Bpm(160) <= argTempo => retStyle = "Fast Electronic/Hardcore"

\* C2: once /analyze has exited, whichever way, the temporary file created
\* during the call is no longer on disk.
C2_NoTempFileLeft == pc = "done" => disk = {}

\* C3: with the client configured, no search error and nothing collected, the
\* result is the 3-entry fallback list of the tempo's own interval, and that
\* list belongs to no other of the six intervals.
C3_FallbackPerInterval ==
    (outcome = "returned" /\ sp /\ catalogError = "" /\ labels = << >>) =>
        /\ Len(Recommended) = 3
        /\ Recommended = get_fallback_labels(tempo)
        /\ \A t \in Tempos :
               get_fallback_labels(t) = Recommended => classify_style(t) = style

\* C4: whatever the client state and the catalog's answers, the returned
\* list has at most 8 entries and no two entries with the same name.
C4_AtMost8Distinct ==
    outcome = "returned" =>
        /\ Len(Recommended) <= 8
        /\ \A i, j \in 1 .. Len(Recommended) :
               i # j => Recommended[i].name # Recommended[j].name

C4_Witness ==
    /\ outcome = "returned" /\ Len(Recommended) = 8
    /\ kwIdx = 2 /\ artIdx = ArtistLimit

\* C5: a failure raised inside the handler's try (upload copy, decoding,
\* tempo estimation) leaves the handler as HTTPException 500 with detail
\* "Analysis failed: <text of that failure>", and nothing else in its place.
C5_FailureIs500 ==
    (pc = "done" /\ failure # "") =>
        /\ outcome = "raised"
        /\ raised = HTTPException(500, "Analysis failed: " \o failure)

\* C6: a catalog failure at any point of the search ends it; the request
\* still returns, and the list is the single diagnostic entry, without the
\* labels collected so far and without fallback entries.
C6_ErrorGivesOnlyDiagnostic ==
    catalogError # "" =>
        /\ pc = "done" /\ outcome = "returned" /\ raised = NoException
        /\ Recommended = << [name |-> "Search error: " \o catalogError, url |-> ""] >>

C6_Witness == catalogError # "" /\ Len(labels) >= 2 /\ kwIdx = 2

StyleOfFirstKeyword(k) ==
    CASE k = "ambient" -> "Ambient / Downtempo"
      [] k = "pop" -> "Pop / R&B"
      [] k = "house" -> "House"
      [] k = "techno" -> "Techno"
      [] k = "drum and bass" -> "Drum & Bass / Jungle"
      [] k = "hardcore" -> "Fast Electronic / Hardcore"
      [] OTHER -> "(no style)"

\* C7: for every tempo the keyword list and the style label come from the
\* same interval: the first keyword is the one that goes with the style.
C7_SamePartition ==
    (retStyle # "" /\ retKeywords # << >>) =>
        StyleOfFirstKeyword(retKeywords[1]) = retStyle

C7_Witness ==
    /\ argTempo = Bpm(128) /\ retStyle = "Techno"
    /\ retKeywords # << >> /\ retKeywords[1] = "techno"

\* C8: without a catalog client no catalog call is issued, and the request
\* returns the fixed 3-element configuration prompt whatever the tempo.
C8_AbsentClientPrompt ==
    ~sp =>
        /\ calls = 0
        /\ pc \in {"start", "read", "detect", "classify", "done"}
        /\ style # "" =>
               /\ outcome = "returned"
               /\ Len(Recommended) = 3
               /\ Recommended = ConfigPrompt

C8_Witness == ~sp /\ outcome = "returned" /\ tempo = Bpm(160)

\* C9: a file name that does not end in ".wav" (in any letter case) is
\* rejected with 400 before anything else: no temporary file, no decoding,
\* no tempo, no catalog call.
C9_Rejected400 ==
    ~EndsWith(Lower(filename), <<".", "w", "a", "v">>) =>
        /\ pc \in {"start", "done"}
        /\ ~created /\ disk = {} /\ temp_path = Unbound
        /\ tempo = 0 /\ style = "" /\ calls = 0
        /\ pc = "done" =>
               /\ outcome = "raised"
               /\ raised.type = "HTTPException" /\ raised.status_code = 400

C9_Witness ==
    /\ pc = "done" /\ raised.status_code = 400
    /\ filename = <<"a", ".", "w", "a", "v", ".", "t", "x", "t">>

\* C10: once the 8th entry is collected the search is over: the request has
\* returned exactly the collected entries in discovery order, and no step
\* after that issues a catalog call or moves to another track, artist or
\* keyword.
C10_StopsAtEight ==
    /\ [](Len(labels) >= 8 =>
            /\ pc = "done" /\ outcome = "returned"
            /\ Len(labels) = 8 /\ Recommended = labels
            /\ \A i \in 1 .. 8 : labels[i].name = LabelName(i))
    /\ [][Len(labels) >= 8 =>
            UNCHANGED <<calls, kwIdx, artIdx, trkIdx, labels>>]_vars

C10_Witness ==
    /\ Len(labels) = 8 /\ outcome = "returned"
    /\ kwIdx = 1 /\ artIdx < nArtists

====
